---- MODULE Spec2Model ----
(***************************************************************************)
(* Model of exercise_planner.py: the Planner form (five line edits and a  *)
(* gender combo box), its result table and summary label, and the         *)
(* calculate() slot connected to the button.                               *)
(*                                                                         *)
(* Texts are sequences of one-character strings.  Python floats are        *)
(* modelled as exact rationals plus the special values inf, -inf and nan,  *)
(* with the IEEE rules for the specials.  Outside the model: the rounding  *)
(* error, overflow and underflow of finite doubles, the exponent and       *)
(* underscore forms of numerals, and the OverflowError of converting a     *)
(* very large int to float.                                                *)
(*                                                                         *)
(* An exception that leaves calculate() is the outcome "Raised".  The form *)
(* keeps accepting events afterwards, which is a superset of the runs in   *)
(* which the exception terminates the application.                         *)
(*                                                                         *)
(* Display labels that are CJK strings in the source are written in ASCII  *)
(* (Male/Female/Other, walking/jogging/swimming/jump_rope).                *)
(***************************************************************************)
EXTENDS Integers, Sequences, FiniteSets, TLC

VARIABLES weight_input, loss_input, height_input, age_input, days_input,
          gender_input, table, note_label, outcome, locals, shown, changed

vars == <<weight_input, loss_input, height_input, age_input, days_input,
          gender_input, table, note_label, outcome, locals, shown, changed>>

fields == <<weight_input, loss_input, height_input, age_input, days_input,
            gender_input>>

(***************************************************************************)
(* Python float values.                                                    *)
(***************************************************************************)
RECURSIVE GCD(_, _)
GCD(a, b) == IF b = 0 THEN a ELSE GCD(b, a % b)

Abs(i) == IF i < 0 THEN -i ELSE i

\* the finite float n/d, in lowest terms with a positive denominator
Fin(n, d) ==
    LET s == IF d < 0 THEN -1 ELSE 1
        g == GCD(Abs(n), Abs(d))
    IN  [k |-> "fin", n |-> (s * n) \div g, d |-> (s * d) \div g]

FromInt(i) == [k |-> "fin", n |-> i, d |-> 1]
Inf  == [k |-> "inf",  n |-> 0, d |-> 1]
NInf == [k |-> "ninf", n |-> 0, d |-> 1]
NaN  == [k |-> "nan",  n |-> 0, d |-> 1]
\* a ZeroDivisionError raised by a float division
ZeroDiv == [k |-> "zerodiv", n |-> 0, d |-> 1]

\* -1, 0 or 1 for a value that is not nan
Sign(x) ==
    CASE x.k = "inf"  -> 1
      [] x.k = "ninf" -> -1
      [] OTHER        -> IF x.n > 0 THEN 1 ELSE IF x.n < 0 THEN -1 ELSE 0

Signed(s) == IF s > 0 THEN Inf ELSE NInf

isfinite(x) == x.k = "fin"

\* x <= 0 and x > 0 as Python compares floats: every comparison with nan is False
LeZero(x) == x.k # "nan" /\ Sign(x) <= 0
GtZero(x) == x.k # "nan" /\ Sign(x) > 0
GeZero(x) == x.k # "nan" /\ Sign(x) >= 0

FMul(x, y) ==
    IF x.k = "zerodiv" \/ y.k = "zerodiv" THEN ZeroDiv
    ELSE IF x.k = "nan" \/ y.k = "nan" THEN NaN
    ELSE IF x.k = "fin" /\ y.k = "fin" THEN Fin(x.n * y.n, x.d * y.d)
    ELSE IF Sign(x) = 0 \/ Sign(y) = 0 THEN NaN
    ELSE Signed(Sign(x) * Sign(y))

FDiv(x, y) ==
    IF x.k = "zerodiv" \/ y.k = "zerodiv" THEN ZeroDiv
    ELSE IF y.k = "fin" /\ y.n = 0 THEN ZeroDiv
    ELSE IF x.k = "nan" \/ y.k = "nan" THEN NaN
    ELSE IF x.k = "fin" /\ y.k = "fin" THEN Fin(x.n * y.d, x.d * y.n)
    ELSE IF x.k = "fin" THEN FromInt(0)
    ELSE IF y.k = "fin" THEN Signed(Sign(x) * Sign(y))
    ELSE NaN

FAdd(x, y) ==
    IF x.k = "zerodiv" \/ y.k = "zerodiv" THEN ZeroDiv
    ELSE IF x.k = "nan" \/ y.k = "nan" THEN NaN
    ELSE IF x.k = "fin" /\ y.k = "fin" THEN Fin(x.n * y.d + y.n * x.d, x.d * y.d)
    ELSE IF x.k = "fin" THEN y
    ELSE IF y.k = "fin" THEN x
    ELSE IF x.k = y.k THEN x
    ELSE NaN

FNeg(x) ==
    CASE x.k = "fin"  -> Fin(-x.n, x.d)
      [] x.k = "inf"  -> NInf
      [] x.k = "ninf" -> Inf
      [] OTHER        -> x

FSub(x, y) == FAdd(x, FNeg(y))

\* x > y for two floats
FGt(x, y) == x.k # "nan" /\ y.k # "nan" /\ GtZero(FSub(x, y))

\* the integer nearest to n/d (d > 0), ties to the even one
RoundHalfEven(n, d) ==
    LET q == n \div d
        r == n % d
    IN  IF 2 * r < d THEN q
        ELSE IF 2 * r > d THEN q + 1
        ELSE IF q % 2 = 0 THEN q ELSE q + 1

\* an int result, or the exception that Python's round() raises
NoInt == [raised |-> TRUE, v |-> 0]
round(x) ==
    IF x.k = "fin" THEN [raised |-> FALSE, v |-> RoundHalfEven(x.n, x.d)]
    ELSE NoInt

RECURSIVE Pow10(_)
Pow10(p) == IF p = 0 THEN 1 ELSE 10 * Pow10(p - 1)

\* f"{x:.<p>f}": the text of x with p decimals, kept as the rounded number of
\* 10^-p units (v), or the text inf / -inf / nan
Format(x, p) ==
    IF x.k = "fin"
    THEN [k |-> "fin", v |-> RoundHalfEven(x.n * Pow10(p), x.d), p |-> p]
    ELSE [k |-> x.k, v |-> 0, p |-> p]

\* str(i) of an int
Str(i) == [k |-> "fin", v |-> i, p |-> 0]

(***************************************************************************)
(* Parsing of the line edits' texts: str.strip(), float(), int().          *)
(***************************************************************************)
Digits == <<"0", "1", "2", "3", "4", "5", "6", "7", "8", "9">>

IsDigit(c) == \E i \in 1..10 : Digits[i] = c
DigitVal(c) == (CHOOSE i \in 1..10 : Digits[i] = c) - 1
IsSpace(c) == c = " "

RECURSIVE LStrip(_)
LStrip(s) == IF s # <<>> /\ IsSpace(Head(s)) THEN LStrip(Tail(s)) ELSE s

RECURSIVE RStrip(_)
RStrip(s) ==
    IF s # <<>> /\ IsSpace(s[Len(s)]) THEN RStrip(SubSeq(s, 1, Len(s) - 1)) ELSE s

strip(s) == RStrip(LStrip(s))

AllDigits(s) == \A i \in 1..Len(s) : IsDigit(s[i])

RECURSIVE DigitsVal(_)
DigitsVal(s) ==
    IF s = <<>> THEN 0
    ELSE 10 * DigitsVal(SubSeq(s, 1, Len(s) - 1)) + DigitVal(s[Len(s)])

HasSign(s) == s # <<>> /\ Head(s) \in {"+", "-"}
Unsigned(s) == IF HasSign(s) THEN Tail(s) ELSE s
SignOf(s) == IF s # <<>> /\ Head(s) = "-" THEN -1 ELSE 1

\* a ValueError raised by float() or int()
ValueError == [ok |-> FALSE]

\* int(text): optional blanks, optional sign, one or more digits
int(text) ==
    LET s == strip(text)
        b == Unsigned(s)
    IN  IF b # <<>> /\ AllDigits(b)
        THEN [ok |-> TRUE, v |-> SignOf(s) * DigitsVal(b)]
        ELSE ValueError

DotAt(b) == IF \E i \in 1..Len(b) : b[i] = "."
            THEN CHOOSE i \in 1..Len(b) : b[i] = "." /\ \A j \in 1..(i - 1) : b[j] # "."
            ELSE 0

\* float(text): optional blanks, optional sign, then inf, nan, or a decimal
\* numeral with at least one digit and at most one point
float(text) ==
    LET s == strip(text)
        b == Unsigned(s)
        dot == DotAt(b)
        ip == IF dot = 0 THEN b ELSE SubSeq(b, 1, dot - 1)
        fp == IF dot = 0 THEN <<>> ELSE SubSeq(b, dot + 1, Len(b))
    IN  IF b = <<"i", "n", "f">>
        THEN [ok |-> TRUE, v |-> IF SignOf(s) < 0 THEN NInf ELSE Inf]
        ELSE IF b = <<"n", "a", "n">>
        THEN [ok |-> TRUE, v |-> NaN]
        ELSE IF AllDigits(ip) /\ AllDigits(fp) /\ Len(ip) + Len(fp) > 0
        THEN [ok |-> TRUE,
              v |-> Fin(SignOf(s) * (DigitsVal(ip) * Pow10(Len(fp)) + DigitsVal(fp)),
                        Pow10(Len(fp)))]
        ELSE ValueError

(***************************************************************************)
(* Program constants.                                                      *)
(***************************************************************************)
\* METS, in the dict's insertion order
METS == << [name |-> "walking",   met |-> Fin(7, 2)],
           [name |-> "jogging",   met |-> FromInt(7)],
           [name |-> "swimming",  met |-> FromInt(8)],
           [name |-> "jump_rope", met |-> FromInt(12)] >>

\* the items of the gender combo box
Genders == {"Male", "Female", "Other"}

KcalPerKg == 7700
DefaultDays == 30

\* the label's text after construction
HelpText == [k |-> "help"]

(***************************************************************************)
(* The arithmetic of calculate().                                          *)
(***************************************************************************)
kcal_per_minute(met, weight_kg) ==
    FDiv(FMul(FMul(met, Fin(7, 2)), weight_kg), FromInt(200))

\* height = float(text) if text.strip() else 0.0, 0.0 on an exception
ParseHeight(text) ==
    IF strip(text) # <<>> /\ float(text).ok THEN float(text).v ELSE FromInt(0)

\* age = int(text) if text.strip() else 0, 0 on an exception
ParseAge(text) ==
    IF strip(text) # <<>> /\ int(text).ok THEN int(text).v ELSE 0

\* days = int(text) if text.strip() else 30, 30 when <= 0 or on an exception
ParseDays_keepsZero(text) ==
    IF strip(text) # <<>> /\ int(text).ok
    THEN IF int(text).v < 0 THEN DefaultDays ELSE int(text).v
    ELSE DefaultDays

ParseDays(text) ==
    IF strip(text) # <<>> /\ int(text).ok
    THEN IF int(text).v <= 0 THEN DefaultDays ELSE int(text).v
    ELSE DefaultDays

\* the basic check: weight <= 0 or loss_kg <= 0
NonPositive_strict(weight, loss_kg) ==
    (weight.k # "nan" /\ Sign(weight) < 0) \/ (loss_kg.k # "nan" /\ Sign(loss_kg) < 0)

NonPositive(weight, loss_kg) == LeZero(weight) \/ LeZero(loss_kg)

TotalKcal(loss_kg) == FMul(loss_kg, FromInt(KcalPerKg))

\* Mifflin-St Jeor, evaluated left to right
BMR(gender, weight, height, age) ==
    LET base == FSub(FAdd(FMul(FromInt(10), weight), FMul(Fin(25, 4), height)),
                     FMul(FromInt(5), FromInt(age)))
    IN  IF gender = "Male" THEN FAdd(base, FromInt(5))
        ELSE IF gender = "Female" THEN FSub(base, FromInt(161))
        ELSE base

\* which branch of the guard on kcal_min is taken
MinutesBranch(kcal_min) ==
    IF ~isfinite(kcal_min) \/ LeZero(kcal_min) THEN "sentinel" ELSE "divide"

MinutesNeeded(total_kcal, kcal_min) ==
    IF MinutesBranch(kcal_min) = "sentinel" THEN Inf ELSE FDiv(total_kcal, kcal_min)

water_ml_truncates(total_kcal) ==
    IF total_kcal.k = "fin"
    THEN [raised |-> FALSE, v |-> total_kcal.n \div total_kcal.d]
    ELSE NoInt

water_ml(total_kcal) == round(total_kcal)

\* one pass of the loop body: the values computed and the row inserted
ActivityRow_hoursPerDay(name, met, weight, total_kcal, days) ==
    LET kcal_min == kcal_per_minute(met, weight)
        minutes_needed == MinutesNeeded(total_kcal, kcal_min)
        hours_total == FDiv(minutes_needed, FromInt(days))
        daily_avg == FDiv(minutes_needed, FromInt(days))
        water == water_ml(total_kcal)
    IN  [raised |-> daily_avg.k = "zerodiv" \/ water.raised,
         branch |-> MinutesBranch(kcal_min),
         kcal_min |-> kcal_min,
         minutes_needed |-> minutes_needed,
         hours_total |-> hours_total,
         daily_avg |-> daily_avg,
         item |-> [name |-> name,
                   minutes |-> Format(minutes_needed, 1),
                   hours |-> Format(hours_total, 2),
                   daily |-> Format(daily_avg, 1),
                   water |-> Str(water.v)]]

ActivityRow(name, met, weight, total_kcal, days) ==
    LET kcal_min == kcal_per_minute(met, weight)
        minutes_needed == MinutesNeeded(total_kcal, kcal_min)
        hours_total == FDiv(minutes_needed, FromInt(60))
        daily_avg == FDiv(minutes_needed, FromInt(days))
        water == water_ml(total_kcal)
    IN  [raised |-> daily_avg.k = "zerodiv" \/ water.raised,
         branch |-> MinutesBranch(kcal_min),
         kcal_min |-> kcal_min,
         minutes_needed |-> minutes_needed,
         hours_total |-> hours_total,
         daily_avg |-> daily_avg,
         item |-> [name |-> name,
                   minutes |-> Format(minutes_needed, 1),
                   hours |-> Format(hours_total, 2),
                   daily |-> Format(daily_avg, 1),
                   water |-> Str(water.v)]]

\* which branch of the conditional expression for daily_deficit is taken
DeficitBranch(days) == IF days > 0 THEN "divide" ELSE "fallback"

DailyDeficit(total_kcal, days) ==
    IF DeficitBranch(days) = "divide" THEN FDiv(total_kcal, FromInt(days)) ELSE total_kcal

\* the text set on the label
Summary(total_kcal, daily_deficit, bmr, gender) ==
    [k |-> "summary",
     total_kcal |-> Format(total_kcal, 0),
     daily_deficit |-> Format(daily_deficit, 0),
     bmr |-> Format(bmr, 0),
     water |-> Str(round(total_kcal).v),
     gender |-> gender]

(***************************************************************************)
(* calculate(): one click of the button, run to its return or to the       *)
(* exception that leaves it.  The result is the display it leaves, the     *)
(* way it ended (outcome) and its local variables at that point.           *)
(***************************************************************************)
NoLocals == [reached |-> "none"]

\* QMessageBox.warning(...) followed by return
Warn_clearsTable(kind, tbl, note, loc) ==
    [outcome |-> kind, table |-> <<>>, note_label |-> note, locals |-> loc]

Warn(kind, tbl, note, loc) ==
    [outcome |-> kind, table |-> tbl, note_label |-> note, locals |-> loc]

\* self.table.setRowCount(0)
setRowCount0_keepsRows(tbl) == tbl

setRowCount0(tbl) == <<>>

\* the for loop over METS.items(): the passes run, up to the first that raises
Passes(weight, total_kcal, days) ==
    [i \in 1..Len(METS) |->
        ActivityRow(METS[i].name, METS[i].met, weight, total_kcal, days)]

FirstRaise(passes) ==
    IF \E i \in 1..Len(passes) : passes[i].raised
    THEN CHOOSE i \in 1..Len(passes) :
            passes[i].raised /\ \A j \in 1..(i - 1) : ~passes[j].raised
    ELSE 0

\* the rows the loop inserts
Inserted(passes) ==
    LET r == FirstRaise(passes)
        n == IF r = 0 THEN Len(passes) ELSE r - 1
    IN  [i \in 1..n |-> passes[i].item]

\* lines 120-159, the inputs having passed the basic check
Compute(weight, loss_kg, height, age, days, gender, tbl, note) ==
    LET total_kcal == TotalKcal(loss_kg)
        cleared == setRowCount0(tbl)
        bmr == BMR(gender, weight, height, age)
        passes == Passes(weight, total_kcal, days)
        daily_deficit == DailyDeficit(total_kcal, days)
        loc == [reached |-> "compute",
                weight |-> weight, loss_kg |-> loss_kg, height |-> height,
                age |-> age, days |-> days, gender |-> gender,
                total_kcal |-> total_kcal, bmr |-> bmr,
                minutes_needed |-> [i \in 1..Len(passes) |-> passes[i].minutes_needed],
                hours_total |-> [i \in 1..Len(passes) |-> passes[i].hours_total],
                daily_avg |-> [i \in 1..Len(passes) |-> passes[i].daily_avg],
                kcal_min |-> [i \in 1..Len(passes) |-> passes[i].kcal_min],
                branches |-> {passes[i].branch : i \in 1..Len(passes)},
                water_ml |-> water_ml(total_kcal),
                daily_deficit |-> daily_deficit,
                deficit_branch |-> DeficitBranch(days)]
    IN  IF FirstRaise(passes) # 0
        THEN [outcome |-> "Raised",
              table |-> cleared \o Inserted(passes),
              note_label |-> note,
              locals |-> [reached |-> "loop",
                          weight |-> weight, loss_kg |-> loss_kg, height |-> height,
                          age |-> age, days |-> days, gender |-> gender,
                          total_kcal |-> total_kcal, bmr |-> bmr,
                          raised_in |-> FirstRaise(passes)]]
        ELSE [outcome |-> "Result",
              table |-> cleared \o Inserted(passes),
              note_label |-> Summary(total_kcal, daily_deficit, bmr, gender),
              locals |-> loc]

\* the whole slot
Handler(wt, lt, ht, at, dt, gender, tbl, note) ==
    IF ~float(wt).ok \/ ~float(lt).ok
    THEN Warn("WarnInvalidNumber", tbl, note, [reached |-> "parse"])
    ELSE LET weight == float(wt).v
             loss_kg == float(lt).v
             height == ParseHeight(ht)
             age == ParseAge(at)
             days == ParseDays(dt)
         IN  IF NonPositive(weight, loss_kg)
             THEN Warn("WarnNotPositive", tbl, note,
                       [reached |-> "check", weight |-> weight, loss_kg |-> loss_kg,
                        height |-> height, age |-> age, days |-> days])
             ELSE Compute(weight, loss_kg, height, age, days, gender, tbl, note)

(***************************************************************************)
(* Bounds of the model: the texts typed into the line edits.               *)
(***************************************************************************)
MaxTextLen == 5

Short(S) == {t \in S : Len(t) <= MaxTextLen}

WeightTexts == Short({<<>>, <<"0">>, <<"7", "0">>, <<"i", "n", "f">>,
                      <<" ", "8", "0", ".", "5", " ">>})
LossTexts   == Short({<<>>, <<"-", "5">>, <<"0", ".", "0", "0", "1">>,
                      <<"i", "n", "f">>})
HeightTexts == Short({<<>>, <<"1", "7", "5">>})
AgeTexts    == Short({<<>>, <<"3", "0">>, <<"-", "3">>})
DaysTexts   == Short({<<>>, <<"7", ".", "5">>, <<"0">>, <<"7">>})

(***************************************************************************)
(* State machine.                                                          *)
(***************************************************************************)
Warnings == {"WarnInvalidNumber", "WarnNotPositive"}

\* a modal warning box is open
InvalidInput == outcome \in Warnings

Init ==
    /\ weight_input = <<>>
    /\ loss_input = <<>>
    /\ height_input = <<>>
    /\ age_input = <<>>
    /\ days_input = <<>>
    /\ gender_input = "Male"
    /\ table = <<>>
    /\ note_label = HelpText
    /\ outcome = "idle"
    /\ locals = NoLocals
    /\ shown = NoLocals
    /\ changed = {"none"}

\* the handler has returned; its frame is gone with the next event
Forget == outcome' = "idle" /\ locals' = NoLocals /\ changed' = {"none"}

EditWeight ==
    /\ ~InvalidInput
    /\ \E t \in WeightTexts \ {weight_input} : weight_input' = t
    /\ Forget
    /\ UNCHANGED <<loss_input, height_input, age_input, days_input, gender_input,
                   table, note_label, shown>>

EditLoss ==
    /\ ~InvalidInput
    /\ \E t \in LossTexts \ {loss_input} : loss_input' = t
    /\ Forget
    /\ UNCHANGED <<weight_input, height_input, age_input, days_input, gender_input,
                   table, note_label, shown>>

EditHeight ==
    /\ ~InvalidInput
    /\ \E t \in HeightTexts \ {height_input} : height_input' = t
    /\ Forget
    /\ UNCHANGED <<weight_input, loss_input, age_input, days_input, gender_input,
                   table, note_label, shown>>

EditAge ==
    /\ ~InvalidInput
    /\ \E t \in AgeTexts \ {age_input} : age_input' = t
    /\ Forget
    /\ UNCHANGED <<weight_input, loss_input, height_input, days_input, gender_input,
                   table, note_label, shown>>

EditDays ==
    /\ ~InvalidInput
    /\ \E t \in DaysTexts \ {days_input} : days_input' = t
    /\ Forget
    /\ UNCHANGED <<weight_input, loss_input, height_input, age_input, gender_input,
                   table, note_label, shown>>

SelectGender ==
    /\ ~InvalidInput
    /\ \E g \in Genders \ {gender_input} : gender_input' = g
    /\ Forget
    /\ UNCHANGED <<weight_input, loss_input, height_input, age_input, days_input,
                   table, note_label, shown>>

\* the user closes the warning box
Dismiss ==
    /\ InvalidInput
    /\ Forget
    /\ UNCHANGED <<fields, table, note_label, shown>>

\* the inputs in which two accepted requests differ
Differ(a, b) ==
    {f \in {"weight", "loss_kg", "height", "age", "days", "gender"} : a[f] # b[f]}

\* a click on the button
Calculate ==
    /\ ~InvalidInput
    /\ \E h \in {Handler(weight_input, loss_input, height_input, age_input,
                        days_input, gender_input, table, note_label)} :
           /\ outcome' = h.outcome
           /\ table' = h.table
           /\ note_label' = h.note_label
           /\ locals' = h.locals
           /\ shown' = IF h.outcome = "Result" THEN h.locals ELSE shown
           /\ changed' = IF h.outcome = "Result" /\ shown.reached = "compute"
                         THEN Differ(shown, h.locals)
                         ELSE {"none"}
    /\ UNCHANGED fields

Next ==
    \/ EditWeight
    \/ EditLoss
    \/ EditHeight
    \/ EditAge
    \/ EditDays
    \/ SelectGender
    \/ Dismiss
    \/ Calculate

Spec == Init /\ [][Next]_vars

(***************************************************************************)
(* Vocabulary of the properties.  While outcome is not "idle" the line     *)
(* edits still hold the texts of the request that produced it.             *)
(***************************************************************************)
\* the request went past the basic check
Reached == outcome \in {"Result", "Raised"}

\* a required text does not parse as a number, or parses to a value <= 0
RequiredTextsBad ==
    \/ ~float(weight_input).ok
    \/ ~float(loss_input).ok
    \/ LeZero(float(weight_input).v)
    \/ LeZero(float(loss_input).v)

\* both required texts parse as numbers and both numbers are > 0
RequiredTextsGood ==
    /\ float(weight_input).ok
    /\ float(loss_input).ok
    /\ GtZero(float(weight_input).v)
    /\ GtZero(float(loss_input).v)

CatalogNames == <<"walking", "jogging", "swimming", "jump_rope">>

\* the table and the label show the result of the accepted request r
ShowsResultOf(r) ==
    /\ r.reached = "compute"
    /\ Len(table) = Len(CatalogNames)
    /\ \A i \in 1..Len(table) :
          table[i] = [name |-> CatalogNames[i],
                      minutes |-> Format(r.minutes_needed[i], 1),
                      hours |-> Format(r.hours_total[i], 2),
                      daily |-> Format(r.daily_avg[i], 1),
                      water |-> Str(r.water_ml.v)]
    /\ note_label.k = "summary"
    /\ note_label.total_kcal = Format(r.total_kcal, 0)
    /\ note_label.daily_deficit = Format(r.daily_deficit, 0)
    /\ note_label.bmr = Format(r.bmr, 0)
    /\ note_label.water = Str(r.water_ml.v)
    /\ note_label.gender = r.gender

(***************************************************************************)
(* C1.  A request is rejected (a warning box, outcome InvalidInput) exactly*)
(* when the weight text or the weight-loss text does not parse as a number *)
(* or parses to a value <= 0, whatever the height, age, days and gender    *)
(* are; a rejected request writes no table row and does not rewrite the    *)
(* summary line.                                                           *)
(***************************************************************************)
C1_RejectedIffRequiredBad ==
    [][ outcome' # "idle" =>
          /\ (outcome' \in Warnings) <=> RequiredTextsBad
          /\ RequiredTextsBad => (table' = table /\ note_label' = note_label) ]_vars

\* a request rejected for its weight-loss text alone, with optional fields set
C1_Witness ==
    /\ outcome = "WarnInvalidNumber"
    /\ float(weight_input).ok /\ GtZero(float(weight_input).v)
    /\ ~float(loss_input).ok
    /\ height_input # <<>> /\ age_input # <<>> /\ days_input # <<>>
    /\ Len(table) = 4

(***************************************************************************)
(* C2.  A request rejected as InvalidInput leaves the display as it was:   *)
(* the table rows and the summary text are unchanged, so a result that was *)
(* fully displayed (table and summary of one earlier request) still is.    *)
(***************************************************************************)
C2_RejectionKeepsDisplay ==
    [][ outcome' \in Warnings =>
          /\ table' = table
          /\ note_label' = note_label
          /\ ShowsResultOf(shown) => ShowsResultOf(shown)' ]_vars

\* a rejection while an earlier request's result is on display
C2_Witness ==
    /\ InvalidInput
    /\ ShowsResultOf(shown)

(***************************************************************************)
(* C3.  Every request whose weight and weight-loss texts parse as numbers  *)
(* > 0 runs to completion: it ends with the four rows written and the      *)
(* summary line showing this request.  (Stated as claimed; the code        *)
(* violates it.)                                                           *)
(***************************************************************************)
C3_ValidRequestCompletes ==
    (outcome # "idle" /\ RequiredTextsGood) =>
        /\ outcome = "Result"
        /\ ShowsResultOf(locals)

(***************************************************************************)
(* C4.  The days value used is 30 when the days text is blank, does not    *)
(* parse as an integer or parses to a value <= 0, and the parsed integer   *)
(* otherwise; so it is > 0 in every request that reaches the computation,  *)
(* and the daily deficit is total_kcal / days, never the fallback branch.  *)
(***************************************************************************)
ExpectedDays(text) ==
    IF strip(text) = <<>> \/ ~int(text).ok \/ int(text).v <= 0
    THEN 30
    ELSE int(text).v

C4_EffectiveDays ==
    /\ Reached =>
          /\ locals.days = ExpectedDays(days_input)
          /\ locals.days > 0
    /\ outcome = "Result" =>
          /\ locals.deficit_branch = "divide"
          /\ locals.daily_deficit = FDiv(locals.total_kcal, FromInt(locals.days))
          /\ note_label.daily_deficit = Format(locals.daily_deficit, 0)

\* an accepted request whose days text parses to a value <= 0
C4_Witness ==
    /\ outcome = "Result"
    /\ int(days_input).ok
    /\ int(days_input).v <= 0
    /\ locals.days = 30

(***************************************************************************)
(* C5.  In every request that reaches the computation (here: that         *)
(* completes it) the height and the age used for the BMR are >= 0.         *)
(* (Stated as claimed; the code violates it.)                              *)
(***************************************************************************)
C5_HeightAgeNonNegative ==
    outcome = "Result" => (GeZero(locals.height) /\ locals.age >= 0)

(***************************************************************************)
(* C6.  In every state the table holds 0 rows or exactly 4 rows named      *)
(* walking, jogging, swimming, jump-rope in this order: rows neither       *)
(* accumulate across requests nor are re-sorted.                           *)
(***************************************************************************)
C6_RowsAreCatalog ==
    \/ Len(table) = 0
    \/ /\ Len(table) = 4
       /\ \A i \in 1..4 : table[i].name = CatalogNames[i]

\* a second accepted request has replaced the rows of an earlier one
C6_Witness ==
    /\ outcome = "Result"
    /\ changed # {"none"}
    /\ changed # {}
    /\ Len(table) = 4

(***************************************************************************)
(* C7.  When an accepted request differs from the accepted request whose   *)
(* result was on display only in the days used, its total_kcal, hydration, *)
(* BMR and every activity's minutes_needed and hours_total are the same.   *)
(***************************************************************************)
C7_DaysOnlyAffectsDaily ==
    [][ (outcome' = "Result" /\ changed' = {"days"}) =>
          /\ locals'.total_kcal = shown.total_kcal
          /\ locals'.water_ml = shown.water_ml
          /\ locals'.bmr = shown.bmr
          /\ locals'.minutes_needed = shown.minutes_needed
          /\ locals'.hours_total = shown.hours_total
          /\ \A i \in 1..Len(table) :
                /\ table'[i].minutes = table[i].minutes
                /\ table'[i].hours = table[i].hours
                /\ table'[i].water = table[i].water ]_vars

\* two successive accepted requests that differ only in the days
C7_Witness ==
    /\ outcome = "Result"
    /\ changed = {"days"}
    /\ isfinite(locals.minutes_needed[1])

(***************************************************************************)
(* C8.  For every accepted request the hydration is                        *)
(* round(loss_kg * 7700), whatever the other inputs; every one of the four *)
(* rows and the summary line show this value.                              *)
(***************************************************************************)
C8_Hydration ==
    outcome = "Result" =>
        /\ isfinite(locals.loss_kg)
        /\ LET ml == Str(RoundHalfEven(locals.loss_kg.n * 7700, locals.loss_kg.d))
           IN  /\ Len(table) = 4
               /\ \A i \in 1..Len(table) : table[i].water = ml
               /\ note_label.water = ml

\* an accepted request whose calorie target is not a whole number
C8_Witness ==
    /\ outcome = "Result"
    /\ locals.total_kcal.d # 1
    /\ locals.height # FromInt(0)

(***************************************************************************)
(* C9.  The BMR is 10*weight + 6.25*height - 5*age, plus 5 for Male, minus *)
(* 161 for Female, unchanged for Other; for the inputs of every accepted   *)
(* request Male BMR - Female BMR is exactly 166, and the BMR grows         *)
(* strictly with the weight and the height and falls strictly with the     *)
(* age.  (Stated as claimed; the code violates it.)                        *)
(***************************************************************************)
C9_BMR ==
    outcome = "Result" =>
        LET w == locals.weight
            h == locals.height
            a == locals.age
            g == locals.gender
            one == FromInt(1)
        IN  /\ locals.bmr =
                  FAdd(FSub(FAdd(FMul(FromInt(10), w), FMul(Fin(25, 4), h)),
                            FMul(FromInt(5), FromInt(a))),
                       FromInt(CASE g = "Male" -> 5 [] g = "Female" -> -161 [] OTHER -> 0))
            /\ FSub(BMR("Male", w, h, a), BMR("Female", w, h, a)) = FromInt(166)
            /\ FGt(BMR(g, FAdd(w, one), h, a), BMR(g, w, h, a))
            /\ FGt(BMR(g, w, FAdd(h, one), a), BMR(g, w, h, a))
            /\ FGt(BMR(g, w, h, a), BMR(g, w, h, a + 1))

(***************************************************************************)
(* C10.  For every accepted request and every activity kcal_min is         *)
(* strictly positive and minutes_needed is finite and positive: the branch *)
(* that substitutes infinity is never taken.  (Stated as claimed; the code *)
(* violates it.)                                                           *)
(***************************************************************************)
C10_MinutesFinite ==
    (outcome = "Result" /\ RequiredTextsGood) =>
        /\ "sentinel" \notin locals.branches
        /\ \A i \in 1..Len(METS) :
              /\ GtZero(locals.kcal_min[i])
              /\ isfinite(locals.minutes_needed[i])
              /\ GtZero(locals.minutes_needed[i])

====
